---- MODULE Spec2Model ----
(***************************************************************************)
(* Model of riverwm_utils.py: the registry handshake, the Output / Seat    *)
(* entity model, the tag-cycle algorithm (get_occupied_tags, get_new_tags) *)
(* and the command dispatcher (set_new_tags).                              *)
(*                                                                         *)
(* Bitmaps are natural numbers, as in the Python source; the bitwise       *)
(* operators are computed bit by bit.  Python's None is modelled by the    *)
(* value None (-1) for integer fields, by NoneBuf for a view_tags buffer   *)
(* and by NoOutput (0) for a reference into OUTPUTS.                       *)
(***************************************************************************)
EXTENDS Integers, Sequences, FiniteSets, TLC

\* ------------------------------------------------------------------ bounds
\* Largest n_tags explored (the program allows 1..32).
MaxTags == 4
\* Largest |n_cycle| explored.
MaxCycle == 5
\* Largest number of tracked Displays in the dispatcher specification.
MaxOutputs == 3
MaxArgLen == 3

\* ------------------------------------------------------------ bit operators
RECURSIVE BitAnd(_, _)
BitAnd(a, b) ==
    IF a = 0 \/ b = 0 THEN 0
    ELSE (a % 2) * (b % 2) + 2 * BitAnd(a \div 2, b \div 2)

RECURSIVE BitOr(_, _)
BitOr(a, b) ==
    IF a = 0 THEN b
    ELSE IF b = 0 THEN a
    ELSE (IF a % 2 = 1 \/ b % 2 = 1 THEN 1 ELSE 0) + 2 * BitOr(a \div 2, b \div 2)

RECURSIVE BitXor(_, _)
BitXor(a, b) ==
    IF a = 0 THEN b
    ELSE IF b = 0 THEN a
    ELSE ((a + b) % 2) + 2 * BitXor(a \div 2, b \div 2)

Shl(a, k) == a * (2 ^ k)

Shr(a, k) == a \div (2 ^ k)

Abs(n) == IF n < 0 THEN -n ELSE n

\* --------------------------------------------------------- Python's None
None == -1

NoneBuf == <<None>>

NoOutput == 0

\* ------------------------------------------------------------- get_new_tags
\* used_tags = (1 << n_tags) - 1
UsedTags(n_tags) == Shl(1, n_tags) - 1

\* last_tag = 1 << (n_tags - 1)
LastTag(n_tags) == Shl(1, n_tags - 1)

\* RotateLeft losing the top bit instead of wrapping it to bit 0.
RotateLeft_NoWrap(tags, n_tags) == BitAnd(Shl(tags, 1), Shl(1, n_tags) - 1)

\* One pass of the loop body with n_cycle > 0.
RotateLeft(tags, n_tags) ==
    LET last_tag == LastTag(n_tags)
        wraps    == BitAnd(tags, last_tag) # 0
        t        == IF wraps THEN BitXor(tags, last_tag) ELSE tags
        new_tags == IF wraps THEN 1 ELSE 0
    IN  BitOr(new_tags, Shl(t, 1))

\* RotateRight losing bit 0 instead of wrapping it to the top bit.
RotateRight_NoWrap(tags, n_tags) == Shr(tags, 1)

\* One pass of the loop body with n_cycle <= 0.
RotateRight(tags, n_tags) ==
    LET last_tag == LastTag(n_tags)
        wraps    == BitAnd(tags, 1) # 0
        t        == IF wraps THEN BitXor(tags, 1) ELSE tags
        new_tags == IF wraps THEN last_tag ELSE 0
    IN  BitOr(new_tags, Shr(t, 1))

\* Rotate ignoring the sign of n_cycle.
Rotate_AlwaysLeft(a, tags) == RotateLeft(tags, a.n_tags)

Rotate(a, tags) ==
    IF a.n_cycle > 0 THEN RotateLeft(tags, a.n_tags) ELSE RotateRight(tags, a.n_tags)

\* RejectEmpty never rejecting.
RejectEmpty_Never(a, tags, occupied) == FALSE

\* "if cli_args.skip_empty and not bool(tags & occupied_tags): continue"
RejectEmpty(a, tags, occupied) == a.skip_empty /\ BitAnd(tags, occupied) = 0

\* RejectOccupied never rejecting.
RejectOccupied_Never(a, tags, occupied) == FALSE

\* "if cli_args.skip_occupied and bool(tags & occupied_tags): continue"
RejectOccupied(a, tags, occupied) == a.skip_occupied /\ BitAnd(tags, occupied) # 0

\* ShortCircuit without the n_cycle == 0 test.
ShortCircuit_NoZero(a, occupied) ==
    \/ a.skip_empty /\ occupied = 0
    \/ a.skip_occupied /\ UsedTags(a.n_tags) = BitXor(UsedTags(a.n_tags), occupied)

\* The early return before the loop.
ShortCircuit(a, occupied) ==
    \/ a.n_cycle = 0
    \/ a.skip_empty /\ occupied = 0
    \/ a.skip_occupied /\ UsedTags(a.n_tags) = BitXor(UsedTags(a.n_tags), occupied)

\* The message printed after the loop ran out.
FailureMessage(a) ==
    IF a.skip_empty THEN "all tags empty"
    ELSE IF a.skip_occupied THEN "all tags occupied"
    ELSE "looped over all tags"

\* The for loop: `done` passes made so far, `i` accepted candidates so far.
\* The result records the value returned, the message printed ("" for none)
\* and the number of rotations made.
RECURSIVE CycleLoop(_, _, _, _, _, _)
CycleLoop(a, occupied, initial_tags, tags, i, done) ==
    IF done = a.n_tags
    THEN [value |-> initial_tags, printed |-> FailureMessage(a), rotations |-> done]
    ELSE LET t == Rotate(a, tags)
         IN  IF RejectEmpty(a, t, occupied) \/ RejectOccupied(a, t, occupied)
             THEN CycleLoop(a, occupied, initial_tags, t, i, done + 1)
             ELSE IF i + 1 = Abs(a.n_cycle) % a.n_tags
                  THEN [value |-> t, printed |-> "", rotations |-> done + 1]
                  ELSE CycleLoop(a, occupied, initial_tags, t, i + 1, done + 1)

\* get_new_tags(cli_args, occupied_tags), reading SEAT.focused_output.focused_tags
get_new_tags(a, occupied, focused_tags) ==
    LET tags == BitAnd(focused_tags, UsedTags(a.n_tags))
    IN  IF ShortCircuit(a, occupied)
        THEN [value |-> tags, printed |-> "", rotations |-> 0]
        ELSE CycleLoop(a, occupied, tags, tags, 0, 0)

\* --------------------------------------------------------- get_occupied_tags
\* view_tags is a buffer of bytes.  struct.unpack(f"{nviews}I", view_tags):
\* nviews unsigned 32-bit words in native (little-endian) byte order.
Unpack(nviews, buf) ==
    [j \in 1..nviews |->
        buf[4 * j - 3] + 256 * buf[4 * j - 2] + 65536 * buf[4 * j - 1]
            + 16777216 * buf[4 * j]]

RECURSIVE OrAll(_)
OrAll(views) ==
    IF views = <<>> THEN 0
    ELSE BitOr(Head(views), OrAll(Tail(views)))

get_occupied_from_view_tags(view_tags) ==
    LET nviews == Len(view_tags) \div 4
    IN  OrAll(Unpack(nviews, view_tags))

RECURSIVE OccupiedOver(_)
OccupiedOver(outputs) ==
    IF outputs = <<>> THEN 0
    ELSE BitOr(get_occupied_from_view_tags(Head(outputs).view_tags),
               OccupiedOver(Tail(outputs)))

\* get_occupied_tags reading the focused Display only, whatever all_outputs.
get_occupied_tags_FocusedOnly(a, outputs, seat) ==
    BitAnd(get_occupied_from_view_tags(outputs[seat.focused_output].view_tags),
           UsedTags(a.n_tags))

get_occupied_tags(a, outputs, seat) ==
    IF ~a.all_outputs \/ Len(outputs) = 1
    THEN BitAnd(get_occupied_from_view_tags(outputs[seat.focused_output].view_tags),
                UsedTags(a.n_tags))
    ELSE BitAnd(OccupiedOver(outputs), UsedTags(a.n_tags))

\* ------------------------------------------------------------- the control
\* The control capability accumulates tokens (add_argument) and run_command
\* sends them as one command and clears them.  `log` is what the compositor
\* has been asked to run, each command with the Display that had compositor
\* focus when it ran; `focus` is the compositor's focused Display.
add_argument(c, token) == [c EXCEPT !.pending = Append(@, token)]

\* Position of Display d in the compositor's ring of Displays.
RingPos(r, d) == CHOOSE k \in 1..Len(r) : r[k] = d

\* "focus-output next": focus moves to the next Display of the ring.
NextOutput(r, d) == r[(RingPos(r, d) % Len(r)) + 1]

\* run_command leaving the accumulated tokens in place.
run_command_KeepArgs(c, r) ==
    [pending |-> c.pending,
     log     |-> Append(c.log, [tokens |-> c.pending, focus |-> c.focus]),
     focus   |-> IF c.pending = <<"focus-output", "next">>
                 THEN NextOutput(r, c.focus) ELSE c.focus]

run_command(c, r) ==
    [pending |-> <<>>,
     log     |-> Append(c.log, [tokens |-> c.pending, focus |-> c.focus]),
     focus   |-> IF c.pending = <<"focus-output", "next">>
                 THEN NextOutput(r, c.focus) ELSE c.focus]

\* str(new_tags)
Str(n) == ToString(n)

Command(c, r, name, arg) == run_command(add_argument(add_argument(c, name), arg), r)

\* WalkOutputs without the break on the last pass.
RECURSIVE WalkOutputs_NoBreak(_, _, _, _, _)
WalkOutputs_NoBreak(c, r, tags, i, n) ==
    IF i = n THEN c
    ELSE WalkOutputs_NoBreak(
             Command(Command(c, r, "focus-output", "next"), r, "set-focused-tags", Str(tags)),
             r, tags, i + 1, n)

\* The loop "for i in range(len(OUTPUTS))" of set_new_tags.
RECURSIVE WalkOutputs(_, _, _, _, _)
WalkOutputs(c, r, tags, i, n) ==
    IF i = n THEN c
    ELSE LET c1 == Command(c, r, "focus-output", "next")
         IN  IF i + 1 = n THEN c1
             ELSE WalkOutputs(Command(c1, r, "set-focused-tags", Str(tags)), r, tags, i + 1, n)

set_new_tags(a, tags, c, r, n) ==
    LET c1 == IF a.follow THEN Command(c, r, "set-view-tags", Str(tags)) ELSE c
        c2 == Command(c1, r, "set-focused-tags", Str(tags))
    IN  IF n = 1 \/ ~a.all_outputs THEN c2
        ELSE WalkOutputs(c2, r, tags, 0, n)

\* ------------------------------------------------------------------- state
\* ------------------------------------------------------- parse_command_line
\* The decimal digits int() reads, by value: Digit[d + 1] is the digit d.
Digit == <<"0", "1", "2", "3", "4", "5", "6", "7", "8", "9">>

IsDigit(c) == \E d \in 1..10 : Digit[d] = c

DigitValue(c) == (CHOOSE d \in 1..10 : Digit[d] = c) - 1

RECURSIVE LStrip(_)
LStrip(s) == IF s # <<>> /\ Head(s) = " " THEN LStrip(Tail(s)) ELSE s

RECURSIVE RStrip(_)
RStrip(s) ==
    IF s # <<>> /\ s[Len(s)] = " " THEN RStrip(SubSeq(s, 1, Len(s) - 1)) ELSE s

\* The digits read left to right.
RECURSIVE Horner(_, _)
Horner(s, acc) ==
    IF s = <<>> THEN acc ELSE Horner(Tail(s), acc * 10 + DigitValue(Head(s)))

\* int(n_tags) of a string: surrounding blanks are dropped, one sign may lead,
\* and one or more digits must follow; anything else raises ValueError.
int(s) ==
    LET t      == RStrip(LStrip(s))
        signed == t # <<>> /\ Head(t) \in {"+", "-"}
        d      == IF signed THEN Tail(t) ELSE t
        ok     == d # <<>> /\ \A i \in 1..Len(d) : IsDigit(d[i])
    IN  IF ok
        THEN [ok |-> TRUE,
              value |-> IF signed /\ Head(t) = "-" THEN 0 - Horner(d, 0)
                                                   ELSE Horner(d, 0)]
        ELSE [ok |-> FALSE, value |-> 0]

\* The range test accepting 33.
check_n_tags_UpTo33(n_tags) ==
    LET r == int(n_tags)
    IN  IF ~r.ok THEN [raised |-> TRUE, value |-> None]
        ELSE IF r.value < 1 \/ 33 < r.value THEN [raised |-> TRUE, value |-> None]
        ELSE [raised |-> FALSE, value |-> r.value]

\* check_n_tags: ArgumentTypeError when int() raises or the value is outside
\* 1..32, the value otherwise.
check_n_tags(n_tags) ==
    LET r == int(n_tags)
    IN  IF ~r.ok THEN [raised |-> TRUE, value |-> None]
        ELSE IF r.value < 1 \/ 32 < r.value THEN [raised |-> TRUE, value |-> None]
        ELSE [raised |-> FALSE, value |-> r.value]

\* default=32 of the n_tags argument; argparse does not pass it through type.
DefaultNTags == 32

VARIABLES
    pc,              \* where cycle_focused_tags / prepare_display stands
    args,            \* the parsed command line
    STATUS_MANAGER,  \* bound status manager (its global id) or None
    CONTROL,         \* bound control (its global id) or None
    OUTPUTS,         \* sequence of Output objects
    SEAT,            \* the Seat object, NoSeat while SEAT is None
    pending,         \* globals present at connect and not yet announced
    hotplug,         \* output globals the compositor may announce later
    occupied_tags,   \* local of cycle_focused_tags
    new_tags,        \* local of cycle_focused_tags
    printed,         \* message printed by get_new_tags, "" for none
    rotations,       \* rotations made by the last get_new_tags
    control,         \* the control's pending tokens and the commands run
    ring,            \* the compositor's ring of Displays (indices of OUTPUTS)
    destroyed,       \* handles destroyed so far
    connected,       \* the connection is open
    rot,             \* the single-step rotations applied repeatedly
    argv,            \* the n_tags argument of the command line, as typed
    trace            \* requests sent and round-trips completed, in order

vars == <<pc, args, STATUS_MANAGER, CONTROL, OUTPUTS, SEAT, pending, hotplug,
          occupied_tags, new_tags, printed, rotations, control, ring,
          destroyed, connected, rot, argv, trace>>

\* Global ids and their interfaces.
StatusManagerId == 1

ControlId == 2

SeatIds == {3, 4}

OutputId(k) == 10 + k

OutputIds == {OutputId(k) : k \in 1..MaxOutputs}

Interface(wid) ==
    IF wid = StatusManagerId THEN "zriver_status_manager_v1"
    ELSE IF wid = ControlId THEN "zriver_control_v1"
    ELSE IF wid \in SeatIds THEN "wl_seat"
    ELSE "wl_output"

\* Output() and Seat() after __init__, with the handle bound by the caller.
NewOutput(wid) ==
    [wl_output |-> wid, focused_tags |-> None, view_tags |-> NoneBuf, status |-> FALSE]

NoSeat == [wl_seat |-> None, status |-> FALSE, focused_output |-> NoOutput]

NewSeat(wid) == [wl_seat |-> wid, status |-> FALSE, focused_output |-> NoOutput]

NoControl == [pending |-> <<>>, log |-> <<>>, focus |-> NoOutput]

\* No n_tags argument on the command line.
NoArgv == [given |-> FALSE, text |-> <<>>]

NoRot == [l |-> 0, r |-> 0, k |-> 0, n_tags |-> 0, b |-> 0]

\* Command lines.
Args(nc, nt, ao, fo, so, se) ==
    [n_cycle |-> nc, n_tags |-> nt, all_outputs |-> ao, follow |-> fo,
     skip_occupied |-> so, skip_empty |-> se]

\* ------------------------------------------------------------ entity model
\* Output.handle_focused_tags / Output.handle_view_tags on the i-th Output.
handle_focused_tags(outputs, i, tags) == [outputs EXCEPT ![i].focused_tags = tags]

\* handle_view_tags storing the buffer on every Output.
handle_view_tags_All(outputs, i, tags) ==
    [j \in 1..Len(outputs) |-> [outputs[j] EXCEPT !.view_tags = tags]]

handle_view_tags(outputs, i, tags) == [outputs EXCEPT ![i].view_tags = tags]

\* Seat.handle_focused_output: the loop over OUTPUTS keeps the last match.
RECURSIVE ScanOutputs(_, _, _, _)
ScanOutputs(outputs, wl_output, i, found) ==
    IF i > Len(outputs) THEN found
    ELSE ScanOutputs(outputs, wl_output, i + 1,
                     IF outputs[i].wl_output = wl_output THEN i ELSE found)

\* handle_focused_output taking the position from the handle's number
\* instead of looking the handle up.
handle_focused_output_ByIndex(outputs, seat, wl_output) ==
    [seat EXCEPT !.focused_output = wl_output - 10]

handle_focused_output(outputs, seat, wl_output) ==
    [seat EXCEPT !.focused_output = ScanOutputs(outputs, wl_output, 1, seat.focused_output)]

\* Output.configure on every Output, and Seat.configure.
ConfigureOutputs(outputs) == [i \in 1..Len(outputs) |-> [outputs[i] EXCEPT !.status = TRUE]]

ConfigureSeat(seat) == [seat EXCEPT !.status = TRUE]

\* ---------------------------------------------------------------- handshake
\* What the client sends and awaits, as the entries of `trace`.
Roundtrip(n) == [op |-> "roundtrip", kind |-> "display", id |-> n]

Request(op, kind, id) == [op |-> op, kind |-> kind, id |-> id]

\* "for output in OUTPUTS: output.configure()" then "SEAT.configure()", in
\* the order of the requests; SEAT.configure() on None sends nothing.  The
\* variant below asks for the Seat's status first.
ConfigureRequests_SeatFirst(outputs, seat) ==
    (IF seat.wl_seat # None
     THEN <<Request("get_river_seat_status", "wl_seat", seat.wl_seat)>>
     ELSE <<>>)
    \o [i \in 1..Len(outputs) |->
          Request("get_river_output_status", "wl_output", outputs[i].wl_output)]

ConfigureRequests(outputs, seat) ==
    [i \in 1..Len(outputs) |->
        Request("get_river_output_status", "wl_output", outputs[i].wl_output)]
    \o (IF seat.wl_seat # None
        THEN <<Request("get_river_seat_status", "wl_seat", seat.wl_seat)>>
        ELSE <<>>)

\* One run_command per command of set_new_tags.
CommandRequests(n) == [k \in 1..n |-> Request("run_command", "control", k)]

Dispatching == pc \in {"roundtrip1", "roundtrip2", "roundtrip3"}

Subscribed == pc \in {"roundtrip2", "roundtrip3"}

\* registry_handle_global(registry, wid, interface, version)
registry_handle_global(wid) ==
    /\ Dispatching
    /\ wid \in pending \cup hotplug
    /\ pending' = pending \ {wid}
    /\ hotplug' = hotplug \ {wid}
    /\ STATUS_MANAGER' =
          IF Interface(wid) = "zriver_status_manager_v1" THEN wid ELSE STATUS_MANAGER
    /\ CONTROL' = IF Interface(wid) = "zriver_control_v1" THEN wid ELSE CONTROL
    /\ OUTPUTS' = IF Interface(wid) = "wl_output"
                  THEN Append(OUTPUTS, NewOutput(wid)) ELSE OUTPUTS
    /\ SEAT' = IF Interface(wid) = "wl_seat" /\ SEAT = NoSeat THEN NewSeat(wid) ELSE SEAT
    /\ UNCHANGED <<pc, args, occupied_tags, new_tags, printed, rotations, control,
                   ring, destroyed, connected, rot, argv, trace>>

\* The capability test checking the status manager only.
CapabilitiesBound_StatusOnly == STATUS_MANAGER # None

\* "if STATUS_MANAGER is None: ... if CONTROL is None: ..." both pass.
CapabilitiesBound == STATUS_MANAGER # None /\ CONTROL # None

\* prepare_display after the first round-trip: a capability is missing.
FatalExit ==
    /\ pc = "roundtrip1"
    /\ pending = {}
    /\ ~CapabilitiesBound
    /\ pc' = "exited"
    /\ trace' = Append(trace, Roundtrip(1))
    /\ UNCHANGED <<args, STATUS_MANAGER, CONTROL, OUTPUTS, SEAT, pending, hotplug,
                   occupied_tags, new_tags, printed, rotations, control, ring,
                   destroyed, connected, rot, argv>>

\* prepare_display after the first round-trip: configure every Output, then
\* the Seat.
Configure ==
    /\ pc = "roundtrip1"
    /\ pending = {}
    /\ CapabilitiesBound
    /\ SEAT # NoSeat
    /\ OUTPUTS' = ConfigureOutputs(OUTPUTS)
    /\ SEAT' = ConfigureSeat(SEAT)
    /\ pc' = "roundtrip2"
    /\ trace' = Append(trace, Roundtrip(1)) \o ConfigureRequests(OUTPUTS, SEAT)
    /\ UNCHANGED <<args, STATUS_MANAGER, CONTROL, pending, hotplug, occupied_tags,
                   new_tags, printed, rotations, control, ring, destroyed,
                   connected, rot, argv>>

\* The same with SEAT still None: SEAT.configure() raises.
ConfigureNoSeat ==
    /\ pc = "roundtrip1"
    /\ pending = {}
    /\ CapabilitiesBound
    /\ SEAT = NoSeat
    /\ OUTPUTS' = ConfigureOutputs(OUTPUTS)
    /\ pc' = "crashed"
    /\ trace' = Append(trace, Roundtrip(1)) \o ConfigureRequests(OUTPUTS, SEAT)
    /\ UNCHANGED <<args, STATUS_MANAGER, CONTROL, SEAT, pending, hotplug,
                   occupied_tags, new_tags, printed, rotations, control, ring,
                   destroyed, connected, rot, argv>>

\* Payloads the compositor sends.
TagPayloads == {1, 6}

ViewPayloads == {<<>>, <<2, 0, 0, 0, 4, 0, 0, 0>>}

FocusedTagsEvent(i, tags) ==
    /\ Subscribed
    /\ OUTPUTS[i].status
    /\ OUTPUTS' = handle_focused_tags(OUTPUTS, i, tags)
    /\ UNCHANGED <<pc, args, STATUS_MANAGER, CONTROL, SEAT, pending, hotplug,
                   occupied_tags, new_tags, printed, rotations, control, ring,
                   destroyed, connected, rot, argv, trace>>

ViewTagsEvent(i, tags) ==
    /\ Subscribed
    /\ OUTPUTS[i].status
    /\ OUTPUTS' = handle_view_tags(OUTPUTS, i, tags)
    /\ UNCHANGED <<pc, args, STATUS_MANAGER, CONTROL, SEAT, pending, hotplug,
                   occupied_tags, new_tags, printed, rotations, control, ring,
                   destroyed, connected, rot, argv, trace>>

FocusedOutputEvent(wl_output) ==
    /\ Subscribed
    /\ SEAT.status
    /\ SEAT' = handle_focused_output(OUTPUTS, SEAT, wl_output)
    /\ UNCHANGED <<pc, args, STATUS_MANAGER, CONTROL, OUTPUTS, pending, hotplug,
                   occupied_tags, new_tags, printed, rotations, control, ring,
                   destroyed, connected, rot, argv, trace>>

\* The second round-trip ends once every subscribed Output has sent both
\* snapshots and the Seat its focused output.
Converged ==
    /\ \A i \in 1..Len(OUTPUTS) :
          OUTPUTS[i].status =>
              OUTPUTS[i].focused_tags # None /\ OUTPUTS[i].view_tags # NoneBuf
    /\ (\E i \in 1..Len(OUTPUTS) : OUTPUTS[i].status) => SEAT.focused_output # NoOutput

EndRoundtrip2 ==
    /\ pc = "roundtrip2"
    /\ Converged
    /\ pc' = "compute"
    /\ trace' = Append(trace, Roundtrip(2))
    /\ UNCHANGED <<args, STATUS_MANAGER, CONTROL, OUTPUTS, SEAT, pending, hotplug,
                   occupied_tags, new_tags, printed, rotations, control, ring,
                   destroyed, connected, rot, argv>>

\* ----------------------------------------------------- cycle_focused_tags
\* The Display the Seat points at.
FocusedOutput == OUTPUTS[SEAT.focused_output]

\* get_occupied_tags and get_new_tags read no field that is still None.
CanCompute ==
    /\ SEAT.focused_output # NoOutput
    /\ FocusedOutput.focused_tags # None
    /\ IF ~args.all_outputs \/ Len(OUTPUTS) = 1
       THEN FocusedOutput.view_tags # NoneBuf
       ELSE \A i \in 1..Len(OUTPUTS) : OUTPUTS[i].view_tags # NoneBuf

\* The computation reads a None and raises.
ComputeRaises ==
    /\ pc = "compute"
    /\ ~CanCompute
    /\ pc' = "crashed"
    /\ UNCHANGED <<args, STATUS_MANAGER, CONTROL, OUTPUTS, SEAT, pending, hotplug,
                   occupied_tags, new_tags, printed, rotations, control, ring,
                   destroyed, connected, rot, argv, trace>>

\* occupied_tags = get_occupied_tags(args); new_tags = get_new_tags(args, ...)
Compute ==
    /\ pc = "compute"
    /\ CanCompute
    /\ LET occ == get_occupied_tags(args, OUTPUTS, SEAT)
           res == get_new_tags(args, occ, FocusedOutput.focused_tags)
       IN  /\ occupied_tags' = occ
           /\ new_tags' = res.value
           /\ printed' = res.printed
           /\ rotations' = res.rotations
    /\ pc' = "set"
    /\ UNCHANGED <<args, STATUS_MANAGER, CONTROL, OUTPUTS, SEAT, pending, hotplug,
                   control, ring, destroyed, connected, rot, argv, trace>>

\* The rings "focus-output next" may walk: every order of the n Displays.
Rings(n) == {r \in [1..n -> 1..n] : \A i, j \in 1..n : r[i] = r[j] => i = j}

\* set_new_tags(args, new_tags); the compositor's focus starts on the Display
\* the Seat reported as focused.
SetNewTags ==
    /\ pc = "set"
    /\ \E r \in Rings(Len(OUTPUTS)) :
          /\ ring' = r
          /\ control' = set_new_tags(args, new_tags,
                                     [control EXCEPT !.focus = SEAT.focused_output],
                                     r, Len(OUTPUTS))
    /\ pc' = "roundtrip3"
    /\ trace' = trace \o CommandRequests(Len(control'.log))
    /\ UNCHANGED <<args, STATUS_MANAGER, CONTROL, OUTPUTS, SEAT, pending, hotplug,
                   occupied_tags, new_tags, printed, rotations, destroyed,
                   connected, rot, argv>>

\* The single-step rotations of the loop body, applied once more.
RotateStep ==
    /\ pc = "rotate"
    /\ rot.k < rot.n_tags
    /\ rot' = [rot EXCEPT !.l = RotateLeft(rot.l, rot.n_tags),
                          !.r = RotateRight(rot.r, rot.n_tags),
                          !.k = rot.k + 1]
    /\ UNCHANGED <<pc, args, STATUS_MANAGER, CONTROL, OUTPUTS, SEAT, pending, hotplug,
                   occupied_tags, new_tags, printed, rotations, control, ring,
                   destroyed, connected, argv, trace>>

\* ------------------------------------------- specification of get_new_tags
\* A converged session about to compute: one or two Displays with their
\* snapshots received, the Seat focused on the first.
ConvergedOutput(k, f, v) ==
    [wl_output |-> OutputId(k), focused_tags |-> f, view_tags |-> v, status |-> TRUE]

\* The four bytes the compositor writes for one window's tags.
WindowBytes(v) ==
    <<v % 256, (v \div 256) % 256, (v \div 65536) % 256, (v \div 16777216) % 256>>

ConvergedSeat(d) == [wl_seat |-> 3, status |-> TRUE, focused_output |-> d]

\* What prepare_display has sent and awaited when it returns.
ConvergedTrace(outputs, seat) ==
    <<Roundtrip(1)>> \o ConfigureRequests(outputs, seat) \o <<Roundtrip(2)>>

TagArgs ==
    {Args(nc, nt, ao, FALSE, so, se) :
        nc \in (-MaxCycle)..MaxCycle, nt \in 1..MaxTags,
        ao \in BOOLEAN, so \in BOOLEAN, se \in BOOLEAN}

InitTags ==
    /\ pc = "compute"
    /\ args \in TagArgs
    /\ \E f \in 0..(Shl(1, args.n_tags + 1) - 1), v \in 0..UsedTags(args.n_tags) :
          OUTPUTS \in {<<ConvergedOutput(1, f, WindowBytes(v))>>,
                       <<ConvergedOutput(1, f, WindowBytes(v)),
                         ConvergedOutput(2, 1, WindowBytes(1))>>}
    /\ SEAT = ConvergedSeat(1)
    /\ STATUS_MANAGER = StatusManagerId
    /\ CONTROL = ControlId
    /\ pending = {}
    /\ hotplug = {}
    /\ occupied_tags = 0
    /\ new_tags = 0
    /\ printed = ""
    /\ rotations = 0
    /\ control = NoControl
    /\ ring = <<>>
    /\ destroyed = {}
    /\ connected = TRUE
    /\ rot = NoRot
    /\ argv = NoArgv
    /\ trace = ConvergedTrace(OUTPUTS, SEAT)

NextTags == Compute

SpecTags == InitTags /\ [][NextTags]_vars

\* ------------------------------------ specification of the single rotations
InitRot ==
    /\ pc = "rotate"
    /\ args = Args(1, 1, FALSE, FALSE, FALSE, FALSE)
    /\ OUTPUTS = <<>>
    /\ SEAT = NoSeat
    /\ STATUS_MANAGER = None
    /\ CONTROL = None
    /\ pending = {}
    /\ hotplug = {}
    /\ occupied_tags = 0
    /\ new_tags = 0
    /\ printed = ""
    /\ rotations = 0
    /\ control = NoControl
    /\ ring = <<>>
    /\ destroyed = {}
    /\ connected = FALSE
    /\ argv = NoArgv
    /\ trace = <<>>
    /\ \E n \in 1..MaxTags : \E b \in 0..UsedTags(n) :
          rot = [l |-> b, r |-> b, k |-> 0, n_tags |-> n, b |-> b]

NextRot == RotateStep

SpecRot == InitRot /\ [][NextRot]_vars

\* --------------------------------------------- specification of set_new_tags
CmdArgs ==
    {Args(1, 2, ao, fo, FALSE, FALSE) : ao \in BOOLEAN, fo \in BOOLEAN}

InitCmd ==
    /\ pc = "set"
    /\ args \in CmdArgs
    /\ \E n \in 1..MaxOutputs :
          /\ OUTPUTS = [k \in 1..n |-> ConvergedOutput(k, 1, <<>>)]
          /\ \E d \in 1..n : SEAT = ConvergedSeat(d)
    /\ STATUS_MANAGER = StatusManagerId
    /\ CONTROL = ControlId
    /\ pending = {}
    /\ hotplug = {}
    /\ occupied_tags = 0
    /\ new_tags \in 0..UsedTags(args.n_tags)
    /\ printed = ""
    /\ rotations = 1
    /\ control = NoControl
    /\ ring = <<>>
    /\ destroyed = {}
    /\ connected = TRUE
    /\ rot = NoRot
    /\ argv = NoArgv
    /\ trace = ConvergedTrace(OUTPUTS, SEAT)

NextCmd == SetNewTags

SpecCmd == InitCmd /\ [][NextCmd]_vars

\* ---------------------------------------- specification of get_occupied_tags
\* Buffers of zero, one and two windows, some with tags beyond n_tags.
ViewBufs ==
    {<<>>, WindowBytes(1), WindowBytes(6), WindowBytes(256),
     WindowBytes(2) \o WindowBytes(8), WindowBytes(12) \o WindowBytes(16777216)}

OccArgs ==
    {Args(1, nt, ao, FALSE, FALSE, FALSE) : nt \in 1..MaxTags, ao \in BOOLEAN}

InitOcc ==
    /\ pc = "compute"
    /\ args \in OccArgs
    /\ \E n \in 1..MaxOutputs :
          /\ OUTPUTS \in {[k \in 1..n |-> ConvergedOutput(k, 1, v[k])] : v \in [1..n -> ViewBufs]}
          /\ \E d \in 1..n : SEAT = ConvergedSeat(d)
    /\ STATUS_MANAGER = StatusManagerId
    /\ CONTROL = ControlId
    /\ pending = {}
    /\ hotplug = {}
    /\ occupied_tags = 0
    /\ new_tags = 0
    /\ printed = ""
    /\ rotations = 0
    /\ control = NoControl
    /\ ring = <<>>
    /\ destroyed = {}
    /\ connected = TRUE
    /\ rot = NoRot
    /\ argv = NoArgv
    /\ trace = ConvergedTrace(OUTPUTS, SEAT)

NextOcc == Compute

SpecOcc == InitOcc /\ [][NextOcc]_vars

\* --------------------------------------- specification of parse_command_line
\* The characters an n_tags argument is typed from, and the arguments of up
\* to MaxArgLen characters.
ArgChars == {"0", "1", "2", "3", "4", "+", "-", " ", "x"}

ArgTexts == UNION {[1..n -> ArgChars] : n \in 0..MaxArgLen}

\* parse_command_line() for the n_tags argument: the default when it is
\* absent, check_n_tags otherwise; an ArgumentTypeError ends the program with
\* a usage error, leaving no parsed value.
parse_command_line ==
    /\ pc = "parse"
    /\ LET r == IF argv.given THEN check_n_tags(argv.text)
                ELSE [raised |-> FALSE, value |-> DefaultNTags]
       IN  IF r.raised
           THEN pc' = "usage_error" /\ UNCHANGED args
           ELSE pc' = "parsed" /\ args' = [args EXCEPT !.n_tags = r.value]
    /\ UNCHANGED <<STATUS_MANAGER, CONTROL, OUTPUTS, SEAT, pending, hotplug,
                   occupied_tags, new_tags, printed, rotations, control, ring,
                   destroyed, connected, rot, argv, trace>>

InitParse ==
    /\ pc = "parse"
    /\ args = Args(1, None, FALSE, FALSE, FALSE, FALSE)
    /\ argv \in {NoArgv} \cup {[given |-> TRUE, text |-> t] : t \in ArgTexts}
    /\ OUTPUTS = <<>>
    /\ SEAT = NoSeat
    /\ STATUS_MANAGER = None
    /\ CONTROL = None
    /\ pending = {}
    /\ hotplug = {}
    /\ occupied_tags = 0
    /\ new_tags = 0
    /\ printed = ""
    /\ rotations = 0
    /\ control = NoControl
    /\ ring = <<>>
    /\ destroyed = {}
    /\ connected = FALSE
    /\ rot = NoRot
    /\ trace = <<>>

NextParse == parse_command_line

SpecParse == InitParse /\ [][NextParse]_vars

\* -------------------------------------------------------------- the session
\* The handles the session has created.
Handles ==
    {<<"wl_output", OUTPUTS[i].wl_output>> : i \in 1..Len(OUTPUTS)}
    \cup {<<"output_status", OUTPUTS[i].wl_output>> :
             i \in {j \in 1..Len(OUTPUTS) : OUTPUTS[j].status}}
    \cup (IF SEAT # NoSeat THEN {<<"wl_seat", SEAT.wl_seat>>} ELSE {})
    \cup (IF SEAT.status THEN {<<"seat_status", SEAT.wl_seat>>} ELSE {})
    \cup (IF STATUS_MANAGER # None THEN {<<"status_manager", STATUS_MANAGER>>} ELSE {})
    \cup (IF CONTROL # None THEN {<<"control", CONTROL>>} ELSE {})

\* Output.destroy(): the wl_output, then the status if there is one.
OutputDestroys(output) ==
    <<Request("destroy", "wl_output", output.wl_output)>>
    \o (IF output.status
        THEN <<Request("destroy", "output_status", output.wl_output)>>
        ELSE <<>>)

RECURSIVE OutputsDestroys(_)
OutputsDestroys(outputs) ==
    IF outputs = <<>> THEN <<>>
    ELSE OutputDestroys(Head(outputs)) \o OutputsDestroys(Tail(outputs))

\* The destroy requests of close_display in the order it sends them: the
\* Seat, every Output, the status manager, the control.
DestroyRequests ==
    (IF SEAT.wl_seat # None
     THEN <<Request("destroy", "wl_seat", SEAT.wl_seat)>> ELSE <<>>)
    \o (IF SEAT.status
        THEN <<Request("destroy", "seat_status", SEAT.wl_seat)>> ELSE <<>>)
    \o OutputsDestroys(OUTPUTS)
    \o (IF STATUS_MANAGER # None
        THEN <<Request("destroy", "status_manager", STATUS_MANAGER)>> ELSE <<>>)
    \o (IF CONTROL # None
        THEN <<Request("destroy", "control", CONTROL)>> ELSE <<>>)

\* display.disconnect()
Disconnect == Request("disconnect", "display", 0)

\* The third round-trip ends and close_display(display) runs.
close_display ==
    /\ pc = "roundtrip3"
    /\ destroyed' = destroyed \cup Handles
    /\ connected' = FALSE
    /\ pc' = "done"
    /\ trace' = Append(trace, Roundtrip(3)) \o DestroyRequests \o <<Disconnect>>
    /\ UNCHANGED <<args, STATUS_MANAGER, CONTROL, OUTPUTS, SEAT, pending, hotplug,
                   occupied_tags, new_tags, printed, rotations, control, ring, rot,
                   argv>>

SessionOutputIds == {OutputId(1), OutputId(2)}

SessionArgs ==
    {Args(nc, 2, ao, fo, FALSE, se) :
        nc \in {1, 2}, ao \in BOOLEAN, fo \in BOOLEAN, se \in BOOLEAN}

\* After connect(), get_registry() and the registration of the global
\* handler: the compositor has the globals `pending` to announce, and may
\* announce the outputs `hotplug` at any later dispatch.
Init ==
    /\ pc = "roundtrip1"
    /\ args \in SessionArgs
    /\ pending \in SUBSET ({StatusManagerId, ControlId} \cup SeatIds \cup SessionOutputIds)
    /\ hotplug \in SUBSET (SessionOutputIds \ pending)
    /\ STATUS_MANAGER = None
    /\ CONTROL = None
    /\ OUTPUTS = <<>>
    /\ SEAT = NoSeat
    /\ occupied_tags = 0
    /\ new_tags = 0
    /\ printed = ""
    /\ rotations = 0
    /\ control = NoControl
    /\ ring = <<>>
    /\ destroyed = {}
    /\ connected = TRUE
    /\ rot = NoRot
    /\ argv = NoArgv
    /\ trace = <<>>

Next ==
    \/ \E wid \in pending \cup hotplug : registry_handle_global(wid)
    \/ FatalExit
    \/ Configure
    \/ ConfigureNoSeat
    \/ \E i \in 1..Len(OUTPUTS), tags \in TagPayloads : FocusedTagsEvent(i, tags)
    \/ \E i \in 1..Len(OUTPUTS), tags \in ViewPayloads : ViewTagsEvent(i, tags)
    \/ \E wl_output \in SessionOutputIds : FocusedOutputEvent(wl_output)
    \/ EndRoundtrip2
    \/ Compute
    \/ ComputeRaises
    \/ SetNewTags
    \/ close_display

Spec == Init /\ [][Next]_vars

\* ===================================================================== claims
\* The focused Display's focused_tags masked to n_tags bits.
MaskedFocus == BitAnd(FocusedOutput.focused_tags, UsedTags(args.n_tags))

Computed == pc = "set"

Overlaps == BitAnd(new_tags, occupied_tags) # 0

\* x, an n-bit word, circularly rotated k places toward the higher bits.
CircularLeft(x, k, n) == ((x * (2 ^ k)) % (2 ^ n)) + (x \div (2 ^ (n - k)))

\* The rotation n_cycle asks for: |n_cycle| mod n_tags places, toward the
\* higher bits when n_cycle > 0 and toward the lower bits when n_cycle < 0.
Rotated(x, n_cycle, n) ==
    LET k == Abs(n_cycle) % n
    IN  IF n_cycle > 0 THEN CircularLeft(x, k, n) ELSE CircularLeft(x, (n - k) % n, n)

\* C1 as stated: with skip_empty the returned bitmap always meets the
\* occupancy bitmap, unless the occupancy is zero and the current tags are
\* returned.
C1_Original ==
    (Computed /\ args.skip_empty) =>
        \/ Overlaps
        \/ occupied_tags = 0 /\ new_tags = MaskedFocus

\* C1 as amended: with skip_empty the returned bitmap meets the occupancy
\* bitmap unless the occupancy is zero, n_cycle is 0 or the search ran out and
\* a cycle failure was printed; in those cases the masked current tags are
\* returned.
C1_SkipEmpty ==
    (Computed /\ args.skip_empty) =>
        \/ Overlaps
        \/ /\ occupied_tags = 0 \/ args.n_cycle = 0 \/ printed # ""
           /\ new_tags = MaskedFocus

C1_Witness ==
    /\ Computed /\ args.skip_empty /\ ~args.skip_occupied
    /\ rotations > 1 /\ printed = ""
    /\ Overlaps /\ new_tags # MaskedFocus
    /\ BitAnd(MaskedFocus, occupied_tags) = 0

\* C2 as stated: with skip_occupied the returned bitmap never meets the
\* occupancy bitmap, unless the occupancy is the full mask.
C2_Original ==
    (Computed /\ args.skip_occupied) =>
        \/ ~Overlaps
        \/ occupied_tags = UsedTags(args.n_tags)

\* C2 as amended: with skip_occupied the returned bitmap never meets the
\* occupancy bitmap unless the occupancy is the full mask, n_cycle is 0 or the
\* search ran out and a cycle failure was printed; in those cases the masked
\* current tags are returned.
C2_SkipOccupied ==
    (Computed /\ args.skip_occupied) =>
        \/ ~Overlaps
        \/ /\ \/ occupied_tags = UsedTags(args.n_tags)
              \/ args.n_cycle = 0
              \/ printed # ""
           /\ new_tags = MaskedFocus

C2_Witness ==
    /\ Computed /\ args.skip_occupied /\ ~args.skip_empty
    /\ rotations > 1 /\ printed = ""
    /\ ~Overlaps /\ new_tags # MaskedFocus /\ new_tags # 0
    /\ BitAnd(MaskedFocus, occupied_tags) # 0

\* C3: with neither skip flag the result is the masked focused tags
\* circularly rotated by |n_cycle| mod n_tags places in the direction of
\* n_cycle.
C3_PlainRotation ==
    (Computed /\ ~args.skip_empty /\ ~args.skip_occupied) =>
        new_tags = Rotated(MaskedFocus, args.n_cycle, args.n_tags)

C3_Witness ==
    /\ Computed /\ ~args.skip_empty /\ ~args.skip_occupied
    /\ args.n_tags = 4 /\ args.n_cycle = 1
    /\ MaskedFocus = 8 /\ new_tags = 1

\* C4: n_cycle = 0 returns the masked focused tags with no rotation and no
\* failure message, whatever the flags and the occupancy.
C4_ZeroCycle ==
    (Computed /\ args.n_cycle = 0) =>
        /\ new_tags = MaskedFocus
        /\ rotations = 0
        /\ printed = ""

C4_Witness ==
    /\ Computed /\ args.n_cycle = 0
    /\ args.skip_empty /\ args.skip_occupied /\ args.all_outputs
    /\ Len(OUTPUTS) = 2
    /\ occupied_tags # 0 /\ MaskedFocus # 0
    /\ FocusedOutput.focused_tags # MaskedFocus

\* C5: n_tags single-step left rotations, and n_tags single-step right
\* rotations, of an n_tags-bit bitmap give the bitmap back.
C5_FullCycle ==
    (pc = "rotate" /\ rot.k = rot.n_tags) => (rot.l = rot.b /\ rot.r = rot.b)

C5_Witness ==
    /\ pc = "rotate" /\ rot.k = rot.n_tags
    /\ rot.n_tags = MaxTags /\ rot.b = 3 /\ rot.l = 3 /\ rot.r = 3

\* ------------------------------------------------------------ set_new_tags
Dispatched == pc = "roundtrip3"

Log == control.log

NumOutputs == Len(OUTPUTS)

Named(name) == {k \in 1..Len(Log) : Log[k].tokens # <<>> /\ Log[k].tokens[1] = name}

WalksAll == args.all_outputs /\ NumOutputs > 1

\* C6: with all_outputs and N > 1 Displays in a ring, N "focus-output next"
\* and N "set-focused-tags" commands run, each Display is the focused one
\* for exactly one "set-focused-tags", each carries the same TagSet and focus
\* ends where it started; otherwise one "set-focused-tags" and no
\* "focus-output" runs.
C6_AllOutputs ==
    Dispatched =>
        /\ \A k \in Named("set-focused-tags") :
              Log[k].tokens = <<"set-focused-tags", Str(new_tags)>>
        /\ \A k \in Named("focus-output") : Log[k].tokens = <<"focus-output", "next">>
        /\ WalksAll =>
              /\ Cardinality(Named("focus-output")) = NumOutputs
              /\ Cardinality(Named("set-focused-tags")) = NumOutputs
              /\ \A d \in 1..NumOutputs :
                    Cardinality({k \in Named("set-focused-tags") : Log[k].focus = d}) = 1
              /\ control.focus = SEAT.focused_output
        /\ ~WalksAll =>
              /\ Cardinality(Named("set-focused-tags")) = 1
              /\ Named("focus-output") = {}

C6_Witness ==
    /\ Dispatched /\ WalksAll /\ NumOutputs = 3
    /\ SEAT.focused_output = 2
    /\ ring = <<3, 1, 2>>
    /\ Cardinality(Named("set-focused-tags")) = 3
    /\ control.focus = 2

\* C7: with follow, "set-view-tags" with the new TagSet runs before the first
\* "set-focused-tags" with the same TagSet; without follow no "set-view-tags"
\* runs; every command run has exactly two tokens.
C7_FollowFirst ==
    Dispatched =>
        /\ \A k \in 1..Len(Log) : Len(Log[k].tokens) = 2
        /\ control.pending = <<>>
        /\ args.follow =>
              /\ Named("set-view-tags") # {}
              /\ Named("set-focused-tags") # {}
              /\ \A k \in Named("set-view-tags") :
                    /\ Log[k].tokens = <<"set-view-tags", Str(new_tags)>>
                    /\ \A j \in Named("set-focused-tags") :
                          k < j /\ Log[j].tokens[2] = Log[k].tokens[2]
        /\ ~args.follow => Named("set-view-tags") = {}

C7_Witness ==
    /\ Dispatched /\ args.follow /\ WalksAll
    /\ Len(Log) > 3
    /\ Log[1].tokens = <<"set-view-tags", "2">>
    /\ Log[2].tokens = <<"set-focused-tags", "2">>

\* ---------------------------------------------------------------- handshake
Tracked(wl_output) == \E i \in 1..Len(OUTPUTS) : OUTPUTS[i].wl_output = wl_output

IndexOf(wl_output) == CHOOSE i \in 1..Len(OUTPUTS) : OUTPUTS[i].wl_output = wl_output

\* C8: once the first round-trip is over with the status manager or the
\* control not advertised, the process has exited with no status
\* subscription requested, nothing computed and no command run.
C8_FatalExit ==
    (pc # "roundtrip1" /\ (STATUS_MANAGER = None \/ CONTROL = None)) =>
        /\ pc = "exited"
        /\ \A i \in 1..Len(OUTPUTS) : ~OUTPUTS[i].status
        /\ ~SEAT.status
        /\ rotations = 0 /\ printed = ""
        /\ control = NoControl

C8_Witness ==
    /\ pc = "exited"
    /\ STATUS_MANAGER # None /\ CONTROL = None
    /\ Len(OUTPUTS) = 2 /\ SEAT # NoSeat

\* C9: when the process ends, in success, after exhaustion or in the fatal
\* exit, every handle created is destroyed and the connection is closed.
C9_Teardown ==
    pc \in {"done", "exited"} => (Handles \subseteq destroyed /\ ~connected)

\* C10: the Seat's focused_output is unset or an element of OUTPUTS; a
\* focused_output notification naming a tracked Display sets it to that
\* Display, one naming an untracked output leaves the Seat as it was.
C10_FocusedOutput ==
    /\ [](SEAT.focused_output = NoOutput \/ SEAT.focused_output \in 1..Len(OUTPUTS))
    /\ [][\A w \in SessionOutputIds :
            FocusedOutputEvent(w) =>
                IF Tracked(w)
                THEN /\ SEAT'.focused_output = IndexOf(w)
                     /\ OUTPUTS'[SEAT'.focused_output].wl_output = w
                ELSE SEAT' = SEAT]_vars

C10_Witness ==
    /\ pc = "roundtrip2"
    /\ Len(OUTPUTS) = 2
    /\ OUTPUTS[1].wl_output = OutputId(2)
    /\ SEAT.focused_output = 1
    /\ hotplug = {}

\* ------------------------------------------------- exhaustion and messages
\* x, an n-bit word, circularly rotated k places in the direction dir
\* (toward the higher bits when dir > 0, toward the lower bits otherwise).
RotatedBy(x, dir, k, n) ==
    IF dir > 0 THEN CircularLeft(x, k % n, n) ELSE CircularLeft(x, (n - (k % n)) % n, n)

Meets(x) == BitAnd(x, occupied_tags) # 0

FullMask == UsedTags(args.n_tags)

\* C11: when get_new_tags ends in exhaustion the value it returns is the
\* focused Display's focused_tags as the compositor reported it, so the
\* command sent leaves the compositor's focused tags as they are.
C11_Fallback ==
    (Computed /\ printed # "") => new_tags = FocusedOutput.focused_tags

\* C12: with skip_occupied, n_cycle # 0 and the occupancy equal to the full
\* mask, the current tags are returned and "all tags occupied" is what is
\* reported, whatever skip_empty.
C12_AllOccupied ==
    (Computed /\ args.skip_occupied /\ args.n_cycle # 0 /\ occupied_tags = FullMask) =>
        /\ new_tags = MaskedFocus
        /\ printed = "all tags occupied"

\* C16: no rotation is attempted exactly when n_cycle = 0, or skip_empty and
\* the occupancy is zero, or skip_occupied and the occupancy is the full
\* mask; with skip_occupied alone, occupancy zero and 0 < |n_cycle| mod
\* n_tags the result is the plain rotation.
C16_ShortCircuit ==
    Computed =>
        /\ rotations = 0 <=>
              \/ args.n_cycle = 0
              \/ args.skip_empty /\ occupied_tags = 0
              \/ args.skip_occupied /\ occupied_tags = FullMask
        /\ (/\ args.skip_occupied /\ ~args.skip_empty /\ occupied_tags = 0
            /\ Abs(args.n_cycle) % args.n_tags > 0) =>
              new_tags = Rotated(MaskedFocus, args.n_cycle, args.n_tags)

\* C17: with skip_empty alone, |n_cycle| = 1, n_tags >= 2, a non-zero
\* occupancy and non-zero masked focused tags, the result is the first
\* rotation in the direction of n_cycle that meets the occupancy, and no
\* failure is reported.
C17_FirstOccupied ==
    (/\ Computed /\ args.skip_empty /\ ~args.skip_occupied
     /\ Abs(args.n_cycle) = 1 /\ args.n_tags >= 2
     /\ occupied_tags # 0 /\ MaskedFocus # 0) =>
        /\ printed = ""
        /\ \E k \in 1..args.n_tags :
              /\ rotations = k
              /\ new_tags = RotatedBy(MaskedFocus, args.n_cycle, k, args.n_tags)
              /\ Meets(new_tags)
              /\ \A j \in 1..(k - 1) :
                    ~Meets(RotatedBy(MaskedFocus, args.n_cycle, j, args.n_tags))

C17_Witness ==
    /\ Computed /\ args.skip_empty /\ ~args.skip_occupied
    /\ args.n_cycle = 1 /\ args.n_tags = 4
    /\ occupied_tags = 6 /\ MaskedFocus = 1
    /\ new_tags = 2 /\ printed = ""

\* C18: with neither skip flag no failure is ever reported, and "all tags
\* empty" is reported only when no rotation of the focused tags meets the
\* occupancy.
C18_FailureOnlyIfInfeasible ==
    Computed =>
        /\ (~args.skip_empty /\ ~args.skip_occupied) => printed = ""
        /\ printed = "all tags empty" =>
              \A k \in 1..args.n_tags :
                  ~Meets(RotatedBy(MaskedFocus, args.n_cycle, k, args.n_tags))

\* -------------------------------------------------------------- occupancy
\* Bit t of the j-th window's word, read from the bytes of the buffer.
WindowBit(buf, j, t) == (buf[4 * (j - 1) + (t \div 8) + 1] \div (2 ^ (t % 8))) % 2 = 1

Bit(x, t) == (x \div (2 ^ t)) % 2 = 1

\* The Displays whose windows count.
Relevant ==
    IF args.all_outputs /\ Len(OUTPUTS) > 1 THEN 1..Len(OUTPUTS) ELSE {SEAT.focused_output}

\* C19: the occupancy has bit t exactly when t < n_tags and some window of
\* a relevant Display (the focused one, or every one with all_outputs and
\* more than one Display) has tag t; computing it changes no entity.
C19_Occupied ==
    /\ [](Computed =>
            \A t \in 0..30 :
                Bit(occupied_tags, t) <=>
                    /\ t < args.n_tags
                    /\ \E d \in Relevant :
                          \E j \in 1..(Len(OUTPUTS[d].view_tags) \div 4) :
                              WindowBit(OUTPUTS[d].view_tags, j, t))
    /\ [][Compute => (OUTPUTS' = OUTPUTS /\ SEAT' = SEAT)]_vars

C19_Witness ==
    /\ Computed /\ args.all_outputs /\ Len(OUTPUTS) = 3
    /\ SEAT.focused_output = 2
    /\ OUTPUTS[1].view_tags = WindowBytes(2) \o WindowBytes(8)
    /\ OUTPUTS[2].view_tags = <<>>
    /\ OUTPUTS[3].view_tags = WindowBytes(12) \o WindowBytes(16777216)
    /\ args.n_tags = 3
    /\ occupied_tags = 6

\* ----------------------------------------------------------- notifications
\* The i-th Output apart from one field.
SameButFocusedTags(i) ==
    /\ OUTPUTS'[i].view_tags = OUTPUTS[i].view_tags
    /\ OUTPUTS'[i].wl_output = OUTPUTS[i].wl_output
    /\ OUTPUTS'[i].status = OUTPUTS[i].status

SameButViewTags(i) ==
    /\ OUTPUTS'[i].focused_tags = OUTPUTS[i].focused_tags
    /\ OUTPUTS'[i].wl_output = OUTPUTS[i].wl_output
    /\ OUTPUTS'[i].status = OUTPUTS[i].status

OthersSame(i) ==
    /\ Len(OUTPUTS') = Len(OUTPUTS)
    /\ \A j \in 1..Len(OUTPUTS) : j # i => OUTPUTS'[j] = OUTPUTS[j]
    /\ SEAT' = SEAT

\* C20: a focused_tags (view_tags) notification sets that field of that
\* Display to its payload and changes nothing else, and nothing but such a
\* notification changes the field: each field holds the latest payload.
C20_LastWriteWins ==
    [][/\ \A i \in 1..Len(OUTPUTS) : \A t \in TagPayloads :
             FocusedTagsEvent(i, t) =>
                 OUTPUTS'[i].focused_tags = t /\ SameButFocusedTags(i) /\ OthersSame(i)
       /\ \A i \in 1..Len(OUTPUTS) : \A v \in ViewPayloads :
             ViewTagsEvent(i, v) =>
                 OUTPUTS'[i].view_tags = v /\ SameButViewTags(i) /\ OthersSame(i)
       /\ \A i \in 1..Len(OUTPUTS) :
             /\ OUTPUTS'[i].focused_tags # OUTPUTS[i].focused_tags =>
                   \E t \in TagPayloads : FocusedTagsEvent(i, t)
             /\ OUTPUTS'[i].view_tags # OUTPUTS[i].view_tags =>
                   \E v \in ViewPayloads : ViewTagsEvent(i, v)]_vars

C20_Witness ==
    /\ Len(OUTPUTS) = 2
    /\ OUTPUTS[1].focused_tags = 6 /\ OUTPUTS[1].view_tags = <<>>
    /\ OUTPUTS[2].focused_tags = 1 /\ OUTPUTS[2].view_tags = <<2, 0, 0, 0, 4, 0, 0, 0>>
    /\ pc = "roundtrip3"

\* C14: when prepare_display returns, every Display in OUTPUTS is
\* subscribed and has received both snapshots, and the Seat exists and is
\* subscribed.
C14_AllSubscribed ==
    pc = "compute" =>
        /\ \A i \in 1..Len(OUTPUTS) :
              /\ OUTPUTS[i].status
              /\ OUTPUTS[i].focused_tags # None
              /\ OUTPUTS[i].view_tags # NoneBuf
        /\ SEAT # NoSeat /\ SEAT.status

\* ---------------------------------------------------------------- C13
\* The numeral of k, most significant digit first.
RECURSIVE Decimal(_)
Decimal(k) ==
    IF k < 10 THEN <<Digit[k + 1]>> ELSE Append(Decimal(k \div 10), Digit[(k % 10) + 1])

Repeat(c, n) == [i \in 1..n |-> c]

\* The ways of writing the positive integer k: blanks around, an optional
\* plus sign, leading zeros.
Forms(k) ==
    {Repeat(" ", a) \o sg \o Repeat("0", z) \o Decimal(k) \o Repeat(" ", b) :
        a \in 0..MaxArgLen, sg \in {<<>>, <<"+">>},
        z \in 0..MaxArgLen, b \in 0..MaxArgLen}

\* The integers of 1..32 with the arguments that write them.
Written == [k \in 1..32 |-> {t \in Forms(k) : Len(t) <= MaxArgLen}]

Denoted == {k \in 1..32 : argv.text \in Written[k]}

\* C13: check_n_tags returns the integer for every argument denoting an
\* integer in 1..32 and raises, returning no value, for 0, 33, any other
\* integer and any non-numeric argument; so a parsed n_tags is in 1..32.
C13_CheckNTags ==
    /\ (pc \in {"parsed", "usage_error"} /\ argv.given) =>
          /\ Denoted # {} => (pc = "parsed" /\ args.n_tags \in Denoted)
          /\ Denoted = {} => (pc = "usage_error" /\ args.n_tags = None)
          /\ argv.text \in {<<"0">>, <<"3", "3">>, <<"-", "1">>, <<"x">>, <<>>}
                => pc = "usage_error"
    /\ pc = "parsed" => args.n_tags \in 1..32

C13_Witness ==
    /\ pc = "parsed"
    /\ argv.given /\ argv.text = <<"3", "2">>
    /\ args.n_tags = 32

\* ---------------------------------------------------------------- C15
\* Positions of `trace` holding an entry of the given kind.
At(ops) == {i \in 1..Len(trace) : trace[i].op \in ops}

Before(is, js) == \A i \in is, j \in js : i < j

RoundtripAt(n) == {i \in 1..Len(trace) : trace[i] = Roundtrip(n)}

\* Some entry of rs precedes every entry of is.
Follows(is, rs) == \A i \in is : \E r \in rs : r < i

Subscriptions == At({"get_river_output_status", "get_river_seat_status"})

====
